---- MODULE Spec2Model ----
(***************************************************************************)
(* A model of QuoridorGame (src/Quoridor.py): the 10 x 10 x 3 board, the   *)
(* two fence reserves, the turn pointer and the winner, with move_pawn,    *)
(* place_fence and is_winner translated branch by branch.                  *)
(*                                                                         *)
(* Python values: a coordinate (col,row) is the tuple <<col, row>>, so the *)
(* source's coord[0] is coord[1] here and coord[1] is coord[2]; a cell     *)
(* [pawn, hfence, vfence] is the tuple <<pawn, hfence, vfence>>, read with *)
(* the source's slot numbers 0, 1, 2 through At.  None is -1 in the pawn   *)
(* slot, the player argument and the winner; an empty fence slot is        *)
(* NoFence, and a Fence object is its orientation string.  A call's        *)
(* outcome is one of "True", "False", "None" (a return value) or           *)
(* "IndexError" (the exception a list subscript raises).                   *)
(*                                                                         *)
(* State: the five fields of the object, the last call made on it (call)   *)
(* with its outcome (ret), and the calls of a recorded opening the caller  *)
(* has still to make (todo).  A run starts from the constructed game; the  *)
(* caller first plays one of the recorded openings call by call, which     *)
(* brings the pawns next to a goal line, and then makes any call of the    *)
(* bounded input sets in any order.                                        *)
(***************************************************************************)
EXTENDS Integers, Sequences, FiniteSets, TLC

VARIABLES board, p1_fence_count, p2_fence_count, current_player, winner,
          call, ret, todo

game_vars == <<board, p1_fence_count, p2_fence_count, current_player, winner>>
vars == <<board, p1_fence_count, p2_fence_count, current_player, winner,
          call, ret, todo>>

\* ------------------------------------------------------------------ values

None == -1
NoFence == "None"
Fence(orientation) == orientation

\* range(10): the length of every row list and of the list of rows.
BoardLen == 10
\* The starting reserve of each player.
StartFences == 10
\* The largest playable index the bounds checks compare against.
LastIndex == 8

\* A Python list subscript: -10..9 is in range, a negative index counts
\* from the end; anything else raises IndexError.
InList(i) == i >= 0 - BoardLen /\ i <= BoardLen - 1
Idx(i) == IF i < 0 THEN i + BoardLen ELSE i

\* self._board[row][col][slot]
At(b, row, col, slot) == b[Idx(row)][Idx(col)][slot + 1]
\* self._board[row][col][slot] = value
SetAt(b, row, col, slot, value) ==
    [b EXCEPT ![Idx(row)][Idx(col)][slot + 1] = value]

Result(r, g) == [ret |-> r, g |-> g]

\* ---------------------------------------------------------------- move_pawn

\* move_pawn_success taking the horizontal fence of the cell it leaves
\* along with the pawn.
move_pawn_success_lifts_fence(g, player, prev, current) ==
    LET b1 == SetAt(g.board, current[2], current[1], 0, player)
        b2 == SetAt(b1, prev[2], prev[1], 0, None)
        b3 == SetAt(b2, prev[2], prev[1], 1, NoFence)
        g1 == [g EXCEPT !.board = b3]
    IN  IF player = 1
        THEN Result("True",
                    [g1 EXCEPT !.winner = IF current[1] = 8 THEN 1 ELSE @,
                               !.current_player = 2])
        ELSE IF player = 2
        THEN Result("True",
                    [g1 EXCEPT !.winner = IF current[1] = 0 THEN 0 ELSE @,
                               !.current_player = 1])
        ELSE Result("True", g1)

move_pawn_success(g, player, prev, current) ==
    LET b1 == SetAt(g.board, current[2], current[1], 0, player)
        b2 == SetAt(b1, prev[2], prev[1], 0, None)
        g1 == [g EXCEPT !.board = b2]
    IN  IF player = 1
        THEN Result("True",
                    [g1 EXCEPT !.winner = IF current[1] = 8 THEN 1 ELSE @,
                               !.current_player = 2])
        ELSE IF player = 2
        THEN Result("True",
                    [g1 EXCEPT !.winner = IF current[1] = 0 THEN 0 ELSE @,
                               !.current_player = 1])
        ELSE Result("True", g1)

\* lines 49-50: out-of-bound coordinates, game over, out-of-turn moves
move_pawn_invalid_after_win(g, player, coord) ==
    \/ coord[2] < 0 \/ coord[2] > LastIndex
    \/ coord[1] < 0 \/ coord[2] > LastIndex
    \/ player # g.current_player

move_pawn_invalid(g, player, coord) ==
    \/ coord[2] < 0 \/ coord[2] > LastIndex
    \/ coord[1] < 0 \/ coord[2] > LastIndex
    \/ g.winner # None
    \/ player # g.current_player

\* line 53: the pawn is one row above the target (c, r), no fence between
pawn_north(b, player, c, r) ==
    At(b, r - 1, c, 0) = player /\ At(b, r, c, 1) = NoFence

\* line 55: the pawn is one row below the target
pawn_south(b, player, c, r) ==
    At(b, r + 1, c, 0) = player /\ At(b, r + 1, c, 1) = NoFence

\* pawn_west reading the vertical slot one column too far east.
pawn_west_next_slot(b, player, c, r) ==
    At(b, r, c - 1, 0) = player /\ At(b, r, c + 1, 2) = NoFence

\* line 57: the pawn is one column left of the target
pawn_west(b, player, c, r) ==
    At(b, r, c - 1, 0) = player /\ At(b, r, c, 2) = NoFence

pawn_east_own_slot(b, player, c, r) ==
    At(b, r, c + 1, 0) = player /\ At(b, r, c, 2) = NoFence

\* line 59: the pawn is one column right of the target
pawn_east(b, player, c, r) ==
    At(b, r, c + 1, 0) = player /\ At(b, r, c + 1, 2) = NoFence

\* lines 49-63.  In each elif the first subscripts evaluated are those of
\* the pawn lookup; the fence lookup after "and" uses subscripts that are
\* in range whenever the pawn lookup's are.
move_pawn(g, player, coord) ==
    LET b == g.board
        c == coord[1]
        r == coord[2]
    IN  IF move_pawn_invalid(g, player, coord)
        THEN Result("False", g)
        ELSE IF ~(InList(r - 1) /\ InList(c))
        THEN Result("IndexError", g)
        ELSE IF pawn_north(b, player, c, r)
        THEN move_pawn_success(g, player, <<c, r - 1>>, coord)
        ELSE IF ~(InList(r + 1) /\ InList(c))
        THEN Result("IndexError", g)
        ELSE IF pawn_south(b, player, c, r)
        THEN move_pawn_success(g, player, <<c, r + 1>>, coord)
        ELSE IF ~(InList(r) /\ InList(c - 1))
        THEN Result("IndexError", g)
        ELSE IF pawn_west(b, player, c, r)
        THEN move_pawn_success(g, player, <<c - 1, r>>, coord)
        ELSE IF ~(InList(r) /\ InList(c + 1))
        THEN Result("IndexError", g)
        ELSE IF pawn_east(b, player, c, r)
        THEN move_pawn_success(g, player, <<c + 1, r>>, coord)
        ELSE Result("False", g)

\* -------------------------------------------------------------- place_fence

fence_placed_success(g, player) ==
    LET g1 == IF player = 1
              THEN [g EXCEPT !.p1_fence_count = @ - 1, !.current_player = 2]
              ELSE IF player = 2
              THEN [g EXCEPT !.p2_fence_count = @ - 1, !.current_player = 1]
              ELSE g
    IN  IF player # None THEN Result("True", g1) ELSE Result("None", g1)

\* lines 94-95: out-of-bound coordinates, game over, out-of-turn placements
place_fence_invalid_any_turn(g, player, coord) ==
    \/ coord[2] < 0 \/ coord[2] > LastIndex
    \/ coord[1] < 0 \/ coord[2] > LastIndex
    \/ g.winner # None

place_fence_invalid(g, player, coord) ==
    \/ coord[2] < 0 \/ coord[2] > LastIndex
    \/ coord[1] < 0 \/ coord[2] > LastIndex
    \/ g.winner # None
    \/ (player # None /\ player # g.current_player)

\* line 98: the current player is out of fences to place
out_of_fences_below_zero(g, player) ==
    \/ (player = 1 /\ g.p1_fence_count < 0)
    \/ (player = 2 /\ g.p2_fence_count < 0)

out_of_fences(g, player) ==
    \/ (player = 1 /\ g.p1_fence_count = 0)
    \/ (player = 2 /\ g.p2_fence_count = 0)

\* place_fence with the reserve charged before the slot is looked at: a
\* placement on an occupied slot fails and still costs a fence.
place_fence_charge_first(g, player, orient, coord) ==
    LET b == g.board
        c == coord[1]
        r == coord[2]
    IN  IF place_fence_invalid(g, player, coord) \/ out_of_fences(g, player)
        THEN Result("False", g)
        ELSE IF orient \in {"h", "v"} /\ ~(InList(r) /\ InList(c))
        THEN Result("IndexError", g)
        ELSE IF orient = "h" /\ At(b, r, c, 1) = NoFence
        THEN fence_placed_success(
                 [g EXCEPT !.board = SetAt(b, r, c, 1, Fence(orient))], player)
        ELSE IF orient = "v" /\ At(b, r, c, 2) = NoFence
        THEN fence_placed_success(
                 [g EXCEPT !.board = SetAt(b, r, c, 2, Fence(orient))], player)
        ELSE Result("False", fence_placed_success(g, player).g)

\* place_fence refusing a fence that would cross one of the other
\* orientation already stored at the cell.
place_fence_no_crossing(g, player, orient, coord) ==
    LET b == g.board
        c == coord[1]
        r == coord[2]
    IN  IF place_fence_invalid(g, player, coord)
        THEN Result("False", g)
        ELSE IF out_of_fences(g, player)
        THEN Result("False", g)
        ELSE IF orient \in {"h", "v"} /\ ~(InList(r) /\ InList(c))
        THEN Result("IndexError", g)
        ELSE IF orient = "h" /\ At(b, r, c, 1) = NoFence
                /\ At(b, r, c, 2) = NoFence
        THEN fence_placed_success(
                 [g EXCEPT !.board = SetAt(b, r, c, 1, Fence(orient))], player)
        ELSE IF orient = "v" /\ At(b, r, c, 2) = NoFence
                /\ At(b, r, c, 1) = NoFence
        THEN fence_placed_success(
                 [g EXCEPT !.board = SetAt(b, r, c, 2, Fence(orient))], player)
        ELSE Result("False", g)

\* lines 94-109.  The subscripts of line 101 (105) are evaluated only when
\* orient is "h" ("v").
place_fence(g, player, orient, coord) ==
    LET b == g.board
        c == coord[1]
        r == coord[2]
    IN  IF place_fence_invalid(g, player, coord)
        THEN Result("False", g)
        ELSE IF out_of_fences(g, player)
        THEN Result("False", g)
        ELSE IF orient = "h" /\ ~(InList(r) /\ InList(c))
        THEN Result("IndexError", g)
        ELSE IF orient = "h" /\ At(b, r, c, 1) = NoFence
        THEN fence_placed_success(
                 [g EXCEPT !.board = SetAt(b, r, c, 1, Fence(orient))], player)
        ELSE IF orient = "v" /\ ~(InList(r) /\ InList(c))
        THEN Result("IndexError", g)
        ELSE IF orient = "v" /\ At(b, r, c, 2) = NoFence
        THEN fence_placed_success(
                 [g EXCEPT !.board = SetAt(b, r, c, 2, Fence(orient))], player)
        ELSE Result("False", g)

\* ---------------------------------------------------------------- is_winner

\* is_winner answering whether the game is over, whoever is asked about.
is_winner_game_over(g, player) == IF g.winner # None THEN "True" ELSE "False"

is_winner(g, player) == IF g.winner = player THEN "True" ELSE "False"

\* ----------------------------------------------------------------- __init__

\* The loop body fencing the west edge only.
SetupCell_west_only(g, column, row) ==
    LET g1 == IF column = 0
              THEN place_fence(g, None, "v", <<column, row>>).g
              ELSE g
    IN  IF row = 0 \/ row = 9
        THEN place_fence(g1, None, "h", <<column, row>>).g
        ELSE g1

\* The body of the loop of lines 35-40 for one (column, row): the "v" call
\* before the "h" call, each through place_fence with player None.
SetupCell(g, column, row) ==
    LET g1 == IF column = 0 \/ column = 9
              THEN place_fence(g, None, "v", <<column, row>>).g
              ELSE g
    IN  IF row = 0 \/ row = 9
        THEN place_fence(g1, None, "h", <<column, row>>).g
        ELSE g1

\* The loops of lines 35-36.  Each step tests the game it has just
\* computed before going on: no setup call sets a winner, so the test
\* always passes, and it makes TLC finish one cell before it starts the
\* next instead of nesting the hundred evaluations.

\* for row in range(10), from `row` on
RECURSIVE SetupRows(_, _, _)
SetupRows(g, column, row) ==
    IF row = BoardLen THEN g
    ELSE LET g1 == SetupCell(g, column, row)
         IN  IF g1.winner = None THEN SetupRows(g1, column, row + 1) ELSE g1

\* for column in range(10), from `column` on
RECURSIVE SetupColumns(_, _)
SetupColumns(g, column) ==
    IF column = BoardLen THEN g
    ELSE LET g1 == SetupRows(g, column, 0)
         IN  IF g1.winner = None THEN SetupColumns(g1, column + 1) ELSE g1

EmptyBoard ==
    [z \in 0..(BoardLen - 1) |->
        [y \in 0..(BoardLen - 1) |-> <<None, NoFence, NoFence>>]]

NewGame ==
    LET b1 == SetAt(EmptyBoard, 0, 4, 0, 1)
        b2 == SetAt(b1, 8, 4, 0, 2)
    IN  SetupColumns([board |-> b2,
                      p1_fence_count |-> StartFences,
                      p2_fence_count |-> StartFences,
                      current_player |-> 1,
                      winner |-> None],
                     0)

\* ------------------------------------------------------------------ calls

MoveCall(player, coord) ==
    [op |-> "move_pawn", player |-> player, orient |-> "None", coord |-> coord]
FenceCall(player, orient, coord) ==
    [op |-> "place_fence", player |-> player, orient |-> orient, coord |-> coord]
WinnerCall(player) ==
    [op |-> "is_winner", player |-> player, orient |-> "None", coord |-> <<0, 0>>]
InitCall ==
    [op |-> "__init__", player |-> None, orient |-> "None", coord |-> <<0, 0>>]

\* ----------------------------------------------------------------- bounds

\* How far past the last playable index (8) the coordinates of a call go.
Beyond == 2
\* The fences each player places while the corner opening is played.
OpeningFences == 9

\* ---------------------------------------------------------------- openings

\* The corner opening brings both pawns to the south-east corner and
\* spends fences: player 1 walks (4,0) -> (7,0) -> (7,7) and then places
\* its fences on the vertical slots of columns 2, 1, ...; player 2 places
\* its fences on the vertical slots of columns 3, 4, ..., walks
\* (4,8) -> (8,8) and steps (7,8), (8,8) three more times.
P1Corner ==
    [i \in 1..3 |-> MoveCall(1, <<4 + i, 0>>)]
    \o [i \in 1..7 |-> MoveCall(1, <<7, i>>)]
    \o [i \in 1..OpeningFences |->
           FenceCall(1, "v", <<2 - ((i - 1) \div 9), (i - 1) % 9>>)]
P2Corner ==
    [i \in 1..OpeningFences |->
           FenceCall(2, "v", <<3 + ((i - 1) \div 9), (i - 1) % 9>>)]
    \o [i \in 1..4 |-> MoveCall(2, <<4 + i, 8>>)]
    \o [i \in 1..6 |-> MoveCall(2, <<7 + ((i + 1) % 2), 8>>)]

\* The west opening brings player 2 next to column 0: player 1 steps
\* (4,1), (4,0), (4,1), (4,0) while player 2 walks (4,8) -> (1,8).
P1West == [i \in 1..4 |-> MoveCall(1, <<4, i % 2>>)]
P2West == [i \in 1..3 |-> MoveCall(2, <<4 - i, 8>>)]

\* The calls of the two players in turn, player 1 first.
Alternate(p1, p2) ==
    [i \in 1..(Len(p1) + Len(p2)) |->
        IF i % 2 = 1 THEN p1[(i + 1) \div 2] ELSE p2[i \div 2]]

Openings == {Alternate(P1Corner, P2Corner), Alternate(P1West, P2West)}

\* ------------------------------------------------------------------ inputs

PlayerArgs == {1, 2, None}
Orients == {"h", "v", "x"}
OutOfRange ==
    {<<8 + d, 8>> : d \in 1..Beyond} \cup {<<8, 9>>, <<8, -1>>, <<-1, 8>>}
MoveCoords ==
    ({7, 8} \X {7, 8}) \cup {<<1, 8>>, <<0, 8>>} \cup OutOfRange
FenceCoords ==
    {<<8, 8>>, <<8, 9>>} \cup {<<8 + d, 8>> : d \in 1..Beyond}

FreeCalls ==
    {MoveCall(player, coord) : player \in PlayerArgs, coord \in MoveCoords}
    \cup {FenceCall(player, orient, coord) :
             player \in PlayerArgs, orient \in Orients, coord \in FenceCoords}
    \cup {WinnerCall(player) : player \in {1, 2}}

\* The calls the caller may make next: the opening's next call while one
\* is being played, any call of the input sets afterwards.
Inputs == IF todo # << >> THEN {Head(todo)} ELSE FreeCalls
Rest == IF todo # << >> THEN Tail(todo) ELSE << >>

\* ------------------------------------------------------------ state machine

Game ==
    [board |-> board,
     p1_fence_count |-> p1_fence_count,
     p2_fence_count |-> p2_fence_count,
     current_player |-> current_player,
     winner |-> winner]

Becomes(g) ==
    /\ board' = g.board
    /\ p1_fence_count' = g.p1_fence_count
    /\ p2_fence_count' = g.p2_fence_count
    /\ current_player' = g.current_player
    /\ winner' = g.winner

Init ==
    /\ board = NewGame.board
    /\ p1_fence_count = NewGame.p1_fence_count
    /\ p2_fence_count = NewGame.p2_fence_count
    /\ current_player = NewGame.current_player
    /\ winner = NewGame.winner
    /\ call = InitCall
    /\ ret = "None"
    /\ todo \in Openings

MovePawn(player, coord) ==
    LET res == move_pawn(Game, player, coord)
    IN  /\ MoveCall(player, coord) \in Inputs
        /\ Becomes(res.g)
        /\ call' = MoveCall(player, coord)
        /\ ret' = res.ret
        /\ todo' = Rest

PlaceFence(player, orient, coord) ==
    LET res == place_fence(Game, player, orient, coord)
    IN  /\ FenceCall(player, orient, coord) \in Inputs
        /\ Becomes(res.g)
        /\ call' = FenceCall(player, orient, coord)
        /\ ret' = res.ret
        /\ todo' = Rest

IsWinner(player) ==
    /\ WinnerCall(player) \in Inputs
    /\ UNCHANGED game_vars
    /\ call' = WinnerCall(player)
    /\ ret' = is_winner(Game, player)
    /\ todo' = Rest

Next ==
    \/ \E cl \in {x \in Inputs : x.op = "move_pawn"} :
           MovePawn(cl.player, cl.coord)
    \/ \E cl \in {x \in Inputs : x.op = "place_fence"} :
           PlaceFence(cl.player, cl.orient, cl.coord)
    \/ \E cl \in {x \in Inputs : x.op = "is_winner"} :
           IsWinner(cl.player)

Spec == Init /\ [][Next]_vars

\* ------------------------------------------------------------------ claims

Other(player) == IF player = 1 THEN 2 ELSE 1
Gameplay == {"move_pawn", "place_fence"}
Reserve(player) == IF player = 1 THEN p1_fence_count ELSE p2_fence_count
InRange(coord) == coord[1] \in 0..8 /\ coord[2] \in 0..8

\* C1: a move_pawn or place_fence call by player 1 or 2 who does not hold
\* the turn returns False; a call that returns True was made by the turn
\* holder and hands the turn to the other player, also when it wins the
\* game; a call that returns False leaves the turn where it was.
TurnAlternation ==
    [][/\ (call'.op \in Gameplay /\ call'.player \in {1, 2}
             /\ call'.player # current_player)
          => ret' = "False"
       /\ (call'.op \in Gameplay /\ call'.player \in {1, 2} /\ ret' = "True")
          => (current_player = call'.player
              /\ current_player' = Other(call'.player))
       /\ (call'.op \in Gameplay /\ ret' = "False")
          => current_player' = current_player]_vars

\* A placement on a free slot, by a player with fences left, in a game not
\* yet won, that was rejected: the caller did not hold the turn.
OutOfTurnRejected ==
    /\ call = FenceCall(Other(current_player), "h", <<8, 8>>)
    /\ ret = "False"
    /\ winner = None
    /\ Reserve(call.player) > 0
    /\ At(board, 8, 8, 1) = NoFence

\* C2: once the winner is set it never changes, and every later move_pawn
\* and place_fence call, whoever makes it (None included) and whatever
\* its arguments, returns False and leaves board, reserves, turn and
\* winner as they were.
WinnerTerminal ==
    [][winner # None
       => /\ UNCHANGED game_vars
          /\ (call'.op \in Gameplay => ret' = "False")]_vars

\* After a win, the setup sentinel's placement on a free slot is rejected.
AfterWinRejected ==
    /\ winner # None
    /\ call = FenceCall(None, "h", <<8, 8>>)
    /\ ret = "False"
    /\ At(board, 8, 8, 1) = NoFence

\* C3: after a successful move_pawn by player p onto the goal column the
\* code tests for p (8 for player 1, 0 for player 2), is_winner(p) is True
\* and is_winner of the other player is False.
WinnerIsMover ==
    (/\ call.op = "move_pawn"
     /\ ret = "True"
     /\ \/ (call.player = 1 /\ call.coord[1] = 8)
        \/ (call.player = 2 /\ call.coord[1] = 0))
    => /\ is_winner(Game, call.player) = "True"
       /\ is_winner(Game, Other(call.player)) = "False"

\* The cells (col, row) of the 10 x 10 grid whose pawn slot holds player.
PawnCells(b, player) ==
    {cell \in (0..9) \X (0..9) : At(b, cell[2], cell[1], 0) = player}

\* C4: a successful move_pawn ends the game exactly when it puts the pawn
\* on the opponent's baseline: player 1 (who starts on row 0) on row 8,
\* player 2 (who starts on row 8) on row 0.  (A move succeeds only in a
\* game not yet won, so the winner is set after it iff the move set it.)
BaselineEndsGame ==
    (call.op = "move_pawn" /\ ret = "True")
    => (winner # None
        <=> \/ (call.player = 1 /\ call.coord[2] = 8)
            \/ (call.player = 2 /\ call.coord[2] = 0))

\* C5: a move_pawn or place_fence call whose coordinate has its column or
\* its row outside 0..8 returns False and changes nothing.
OutOfBoundsRejected ==
    [][(call'.op \in Gameplay /\ ~InRange(call'.coord))
       => (ret' = "False" /\ UNCHANGED game_vars)]_vars

\* C6: every move_pawn and place_fence call by player 1 or 2 returns a
\* boolean; none raises.
NoCallRaises ==
    (call.op \in Gameplay /\ call.player \in {1, 2})
    => ret \in {"True", "False"}

\* C7: a move_pawn or place_fence call that returns False leaves board,
\* reserves, turn and winner unchanged.
FailedCallChangesNothing ==
    [][(call'.op \in Gameplay /\ ret' = "False")
       => UNCHANGED game_vars]_vars

\* The turn holder, with fences left, in a game not yet won, was refused a
\* placement on an occupied slot of the playable area.
OccupiedSlotRejected ==
    /\ call = FenceCall(current_player, "h", <<8, 8>>)
    /\ ret = "False"
    /\ winner = None
    /\ Reserve(current_player) > 0
    /\ At(board, 8, 8, 1) # NoFence

Adjacent(a, t) ==
    \/ (a[1] = t[1] /\ (a[2] = t[2] + 1 \/ a[2] = t[2] - 1))
    \/ (a[2] = t[2] /\ (a[1] = t[1] + 1 \/ a[1] = t[1] - 1))

\* Whether the edge between the adjacent cells a and t carries a fence: a
\* horizontal fence stored at (c,r) lies between (c,r-1) and (c,r), a
\* vertical fence stored at (c,r) between (c-1,r) and (c,r).
EdgeFenced(b, a, t) ==
    IF t[2] = a[2] + 1 THEN At(b, t[2], t[1], 1) # NoFence
    ELSE IF t[2] = a[2] - 1 THEN At(b, a[2], a[1], 1) # NoFence
    ELSE IF t[1] = a[1] + 1 THEN At(b, t[2], t[1], 2) # NoFence
    ELSE At(b, a[2], a[1], 2) # NoFence

\* The game as it is, but with player's pawn on cell a, the turn with
\* player and no winner: the position in which only the geometry decides
\* whether player may step from a to a neighbour.
WithPawnAt(player, a) ==
    LET cleared == [row \in 0..(BoardLen - 1) |-> [col \in 0..(BoardLen - 1) |->
                      IF board[row][col][1] = player
                      THEN [board[row][col] EXCEPT ![1] = None]
                      ELSE board[row][col]]]
    IN  [Game EXCEPT !.board = SetAt(cleared, a[2], a[1], 0, player),
                     !.current_player = player,
                     !.winner = None]

CanStep(player, a, t) ==
    move_pawn(WithPawnAt(player, a), player, t).ret = "True"

\* C8: a successful move_pawn takes the caller's one pawn from a cell of
\* the playable area to an orthogonally adjacent cell of it, across an
\* edge without a fence; and wherever a pawn stands, the step to a
\* neighbouring cell is refused exactly when the step back is.
OneFreeStep ==
    /\ [][(call'.op = "move_pawn" /\ ret' = "True")
          => \E a \in PawnCells(board, call'.player) :
                /\ PawnCells(board, call'.player) = {a}
                /\ InRange(a) /\ InRange(call'.coord)
                /\ Adjacent(a, call'.coord)
                /\ ~EdgeFenced(board, a, call'.coord)
                /\ PawnCells(board', call'.player) = {call'.coord}]_vars
    /\ [](\A player \in {1, 2} : \A a \in PawnCells(board, player) :
            \A t \in {x \in (0..8) \X (0..8) : Adjacent(a, x)} :
                CanStep(player, a, t) <=> CanStep(player, t, a))

\* The turn holder's move to a neighbouring cell of the playable area was
\* refused, in a game not yet won, with a fence on the edge between.
FenceBlockedMove ==
    /\ call.op = "move_pawn"
    /\ call.player = current_player
    /\ ret = "False"
    /\ winner = None
    /\ InRange(call.coord)
    /\ \E a \in PawnCells(board, call.player) :
          Adjacent(a, call.coord) /\ EdgeFenced(board, a, call.coord)

\* C9: each reserve starts at 10 and stays within 0..10; a place_fence
\* call that returns True takes exactly one fence from its caller's
\* reserve and none from the other's, every other call leaves both
\* reserves as they are, and a player whose reserve is 0 is refused.
ReserveAccounting ==
    /\ [](/\ call.op = "__init__"
             => (p1_fence_count = 10 /\ p2_fence_count = 10)
          /\ p1_fence_count \in 0..10
          /\ p2_fence_count \in 0..10)
    /\ [][/\ (call'.op = "place_fence" /\ ret' = "True")
             => /\ call'.player \in {1, 2}
                /\ call'.player = 1
                   => /\ p1_fence_count' = p1_fence_count - 1
                      /\ p2_fence_count' = p2_fence_count
                /\ call'.player = 2
                   => /\ p2_fence_count' = p2_fence_count - 1
                      /\ p1_fence_count' = p1_fence_count
          /\ ~(call'.op = "place_fence" /\ ret' = "True")
             => UNCHANGED <<p1_fence_count, p2_fence_count>>
          /\ (/\ call'.op = "place_fence"
              /\ call'.player \in {1, 2}
              /\ Reserve(call'.player) = 0)
             => ret' = "False"]_vars

\* The turn holder, with no fence left, in a game not yet won, was refused
\* a placement on a free slot of the playable area.
EmptyReserveRejected ==
    /\ call = FenceCall(current_player, "h", <<8, 8>>)
    /\ ret = "False"
    /\ winner = None
    /\ Reserve(current_player) = 0
    /\ At(board, 8, 8, 1) = NoFence

\* C10: in every reachable state exactly one cell holds player 1's pawn
\* and exactly one cell holds player 2's pawn.
OnePawnEach ==
    /\ Cardinality(PawnCells(board, 1)) = 1
    /\ Cardinality(PawnCells(board, 2)) = 1

\* C11: right after construction player 1's pawn is at (4,0), player 2's
\* at (4,8), both reserves are 10, player 1 holds the turn, no winner is
\* set, and each of the four outer edges of the playable area is fenced
\* along all 9 cells: the north edge of row 0 (horizontal slots of row 0),
\* the south edge of row 8 (horizontal slots of row 9), the west edge of
\* column 0 (vertical slots of column 0) and the east edge of column 8
\* (vertical slots of column 9).
InitialState ==
    call.op = "__init__"
    => /\ PawnCells(board, 1) = {<<4, 0>>}
       /\ PawnCells(board, 2) = {<<4, 8>>}
       /\ p1_fence_count = 10 /\ p2_fence_count = 10
       /\ current_player = 1
       /\ winner = None
       /\ \A i \in 0..8 :
             /\ At(board, 0, i, 1) # NoFence
             /\ At(board, 9, i, 1) # NoFence
             /\ At(board, i, 0, 2) # NoFence
             /\ At(board, i, 9, 2) # NoFence

SetupPlacementReturnsTrue ==
    [][call'.op = "place_fence"
       => /\ (call'.player = None /\ board' # board)
             => /\ ret' = "True"
                /\ UNCHANGED <<p1_fence_count, p2_fence_count,
                               current_player>>
          /\ board' # board => ret' = "True"]_vars

\* C14: a fence slot that is occupied stays occupied, by the same fence,
\* across every call.
FencesPermanent ==
    [][board' # board
       => \A row \in 0..9 : \A col \in 0..9 :
             board'[row][col] # board[row][col]
             => \A slot \in {1, 2} :
                   At(board, row, col, slot) # NoFence
                   => At(board', row, col, slot) = At(board, row, col, slot)]_vars

\* A pawn has moved on a board that carries both gameplay fences of (8,8).
MoveBesideFences ==
    /\ call.op = "move_pawn"
    /\ ret = "True"
    /\ At(board, 8, 8, 1) # NoFence
    /\ At(board, 8, 8, 2) # NoFence

\* The column on which move_pawn_success declares player the winner.
GoalColumn(player) == IF player = 1 THEN 8 ELSE 0

PawnsStayInside ==
    /\ [](\A i \in 0..9 :
             At(board, 9, i, 0) = None /\ At(board, i, 9, 0) = None)
    /\ [][(call'.op = "move_pawn" /\ ret' = "True")
          => /\ InRange(call'.coord)
             /\ \E a \in PawnCells(board, call'.player) :
                   InRange(a) /\ Adjacent(a, call'.coord)]_vars

\* The turn holder asked for (0,8) without standing next to it: the
\* western lookup wrapped around to column 9 and found no pawn.
WrappedLookupFindsNoPawn ==
    /\ call = MoveCall(current_player, <<0, 8>>)
    /\ ret = "False"
    /\ winner = None
    /\ At(board, 8, 1, 0) # call.player

\* C17: in every state without a winner the turn holder has a move_pawn
\* or place_fence call with a coordinate in 0..8 on both axes that
\* returns True.
NeverStuck ==
    winner = None
    => \E coord \in (0..8) \X (0..8) :
          \/ \E orient \in {"h", "v"} :
                place_fence(Game, current_player, orient, coord).ret = "True"
          \/ move_pawn(Game, current_player, coord).ret = "True"

====
